---- MODULE Spec2Model ----
(***************************************************************************)
(* Token lifecycle of the authentication API: POST /sign-in,               *)
(* GET /authorize, GET /refresh, GET /sign-out (src/unnamed/part_000) and  *)
(* the AuthorizeController rewrite of GET /authorize                       *)
(* (src/src/controllers/AuthorizeController.ts), run as concurrent request *)
(* handlers over the three external stores: the session cache              *)
(* (tokenCache), the blacklist (tokenBlacklistCache) and the ledger        *)
(* (TokenStore).                                                           *)
(*                                                                         *)
(* One action is one external call of a handler (an await) together with   *)
(* the synchronous code that follows it up to the next external call; the  *)
(* first action of a handler takes the request in.  A response stays in    *)
(* its slot until Respond hands it to the caller, which happens before any *)
(* other step.                                                             *)
(* Time is a discrete clock; a store entry written at time w with a TTL of *)
(* n seconds is live while now < w + n.                                    *)
(***************************************************************************)
EXTENDS Integers, Sequences, FiniteSets, TLC

\* ---------------------------------------------------------------- bounds
MaxTok == 3      \* access/refresh pairs that exist in a run (one pre-issued)
MaxTime == 3     \* the clock runs 0 .. MaxTime
AccessTTL == 2   \* accessTokenExpiresIn, in clock ticks (60 * 60 s in the code)

\* ---------------------------------------------------------------- tokens
\* An access token presented by a caller is one of: absent (NoTok), a pair
\* number 1 .. MaxTok (a JWT signed by generateUserTokens), BadTok (a string
\* that is no JWT signed with JWT_SECRET_KEY and does not start with "SYS"),
\* SysTok (a string that starts with "SYS").  The refresh token of pair k is
\* written k as well; a cookie is NoTok (no cookie), 1 .. MaxTok or BadTok.
NoTok == 0
Pairs == 1 .. MaxTok
BadTok == MaxTok + 1
SysTok == MaxTok + 2
AccessTokens == Pairs \cup {BadTok, SysTok}
\* Two requests are handled at the same time.
Slots == {1, 2}

\* Users of the external user store: e-mail k belongs to user k; e-mail
\* UnknownEmail belongs to nobody.  access_level of user k is k.
Users == {1, 2}
NoUser == 0
\* What POST /sign-in is called with: no e-mail or no password, an e-mail
\* of no user, the e-mail of user 2 with a wrong password, or with the
\* right one.
Credentials == {"missing", "unknown", "wrong", "right"}

VARIABLES
    now,                  \* wall clock (Date.now() / jwt clock), in ticks
    nMinted,              \* pairs signed so far
    tokIat,               \* tokIat[k]: iat of pair k (exp = iat + AccessTTL)
    tokUser,              \* tokUser[k]: authenticated_user of pair k
    tokenCache,           \* session cache: access token -> entry
    tokenBlacklistCache,  \* blacklist: access token -> entry
    TokenStore,           \* ledger: set of records
    req,                  \* req[i]: the request handled in slot i
    known,                \* pairs whose tokens a caller has received
    signedOut,            \* history: tokens for which sign-out answered SUCCESS
    consumed              \* history: SYS tokens whose claims were served from the cache

vars == <<now, nMinted, tokIat, tokUser, tokenCache, tokenBlacklistCache,
          TokenStore, req, known, signedOut, consumed>>

\* ------------------------------------------------------- store entries
NoEntry == [until |-> 0, type |-> "none", user |-> NoUser, iat |-> 0, exp |-> 0]
NoBlack == [until |-> 0, created_at |-> 0]

\* RedisCacheManager.getKey: the value under the key while its TTL runs.
Live(e) == e.until > now

TokExp(k) == tokIat[k] + AccessTTL

\* access_token.slice(0, 3) === "SYS"
HasSysPrefix(t) == t = SysTok

\* jwt.verify(access_token, JWT_SECRET_KEY): a string signed by
\* generateUserTokens verifies until its exp (jsonwebtoken: expired when
\* clock >= exp); any other string is a JsonWebTokenError.  A string that
\* starts with "SYS" has no JSON header and never verifies.
JwtVerify(t) ==
    IF t \in 1 .. nMinted
    THEN IF now >= TokExp(t) THEN "expired" ELSE "valid"
    ELSE "invalid"

\* The decoded payload of pair k: payload plus iat and exp.
Decoded(k) ==
    [type |-> "USER", user |-> tokUser[k], iat |-> tokIat[k], exp |-> TokExp(k)]

\* RedisCacheManager.setKey(key, value, ttl): live for ttl seconds from now.
CacheEntry(val, ttl) ==
    [until |-> now + ttl, type |-> val.type, user |-> val.user,
     iat |-> val.iat, exp |-> val.exp]

LedgerEntry(k) == [user_id |-> tokUser[k], access_token |-> k, refresh_token |-> k]

\* A lookup that matches the access token alone.
FindPairing_AccessOnly(a, c) ==
    {e \in TokenStore : e.access_token = a}

\* TokenStore.findOne({ access_token, refresh_token }): both fields equal.
FindPairing(a, c) ==
    {e \in TokenStore : e.access_token = a /\ e.refresh_token = c}

\* ------------------------------------------------------------ requests
Idle ==
    [op |-> "idle", pc |-> "done", cred |-> "missing",
     tok |-> NoTok, cookie |-> NoTok, new |-> 0,
     status |-> 0, code |-> "", body |-> "none", claims |-> NoUser,
     cookieOp |-> "none", cookieVal |-> NoTok,
     trace |-> <<>>, bl |-> "none", ch |-> "none", sig |-> "none",
     got |-> NoUser, blLive |-> FALSE, paired |-> "none", peer |-> 0, key |-> NoUser,
     afterOut |-> FALSE, afterUse |-> FALSE, again |-> FALSE, fault |-> FALSE]

NewReq(op, pc, t, c) ==
    [Idle EXCEPT !.op = op, !.pc = pc, !.tok = t, !.cookie = c,
                 !.afterOut = (t \in signedOut), !.afterUse = (t \in consumed)]

\* res.status(s).send({ error_code }) and the end of the handler.
Reply(r, s, code) == [r EXCEPT !.pc = "done", !.status = s, !.code = code]

\* res.clearCookie(REFRESH_TOKEN_COOKIE_NAME)
ClearCookie(r) == [r EXCEPT !.cookieOp = "clear", !.cookieVal = NoTok]

\* res.cookie(REFRESH_TOKEN_COOKIE_NAME, refreshToken.token, {...})
SetCookie(r, c) == [r EXCEPT !.cookieOp = "set", !.cookieVal = c]

\* res.send({ ...payload }): the claims of the token, without iat and exp.
SendClaims(r, u, body) ==
    [r EXCEPT !.pc = "done", !.status = 200, !.code = "OK", !.body = body,
              !.claims = u]

Log(r, ev) == [r EXCEPT !.trace = Append(@, ev)]

\* The handler answers a store call that failed (cacheError, a rejected
\* TokenStore promise, an error of the user lookup).
Fail(r, ev, s, code) == Reply([Log(r, ev) EXCEPT !.fault = TRUE], s, code)

Free(i) == req[i].op = "idle"

\* No response is waiting to be handed to its caller.
Quiet == \A i \in Slots : req[i].pc = "done" => req[i].op = "idle"

\* Pairs that requests in flight may still sign: the guard that keeps
\* nMinted within MaxTok.
Minting ==
    Cardinality({i \in Slots : req[i].op \in {"signin", "refresh"}
                               /\ req[i].pc # "done" /\ req[i].new = 0})

\* ---------------------------------------------------------------- Init
\* The ledger is durable and the two Redis stores are not: the service
\* starts with the pair of an earlier sign-in in the ledger and in the
\* caller's hands, and with both caches empty.
Init ==
    /\ now = 0
    /\ nMinted = 1
    /\ tokIat = [k \in Pairs |-> 0]
    /\ tokUser = [k \in Pairs |-> IF k = 1 THEN 1 ELSE NoUser]
    /\ tokenCache = [t \in AccessTokens |-> NoEntry]
    /\ tokenBlacklistCache = [t \in AccessTokens |-> NoBlack]
    /\ TokenStore = {[user_id |-> 1, access_token |-> 1, refresh_token |-> 1]}
    /\ req = [i \in Slots |-> Idle]
    /\ known = {1}
    /\ signedOut = {}
    /\ consumed = {}

\* The clock advances; Redis drops the entries whose TTL has run out.
Tick ==
    /\ Quiet
    /\ now < MaxTime
    /\ now' = now + 1
    /\ tokenCache' = [t \in AccessTokens |->
                        IF tokenCache[t].until > now + 1 THEN tokenCache[t] ELSE NoEntry]
    /\ tokenBlacklistCache' = [t \in AccessTokens |->
                        IF tokenBlacklistCache[t].until > now + 1
                        THEN tokenBlacklistCache[t] ELSE NoBlack]
    /\ UNCHANGED <<nMinted, tokIat, tokUser, TokenStore, req, known, signedOut, consumed>>

\* ============================================================ POST /sign-in
\* generateUserTokens(user, {accessTokenExpiresIn, refreshTokenExpiresIn}):
\* signs the next pair for user u with iat = now, exp = iat + AccessTTL.
generateUserTokens(u) ==
    /\ nMinted' = nMinted + 1
    /\ tokIat' = [tokIat EXCEPT ![nMinted + 1] = now]
    /\ tokUser' = [tokUser EXCEPT ![nMinted + 1] = u]

\* A sign-in that tells the caller the e-mail is not registered.
UnknownEmailReply_NotFound(r) == Reply(r, 404, "USER NOT FOUND")

\* The status and error_code sign-in sends when fetchUserByEmail finds no
\* user, and when verifyUserPassword says no.
UnknownEmailReply(r) == Reply(r, 401, "EMAIL/PASSWORD COMBINATION NOT RECOGNIZED")
WrongPasswordReply(r) == Reply(r, 401, "EMAIL/PASSWORD COMBINATION NOT RECOGNIZED")

\* Lines 53-91: the input check, fetchUserByEmail, verifyUserPassword and
\* generateUserTokens.
SignInFetch(i, cred) ==
    LET r == [NewReq("signin", "fetch", NoTok, NoTok) EXCEPT !.cred = cred] IN
    /\ Quiet /\ Free(i)
    /\ cred = "right" => nMinted + Minting < MaxTok
    /\ \E fault \in BOOLEAN :
         IF cred = "missing"
         THEN /\ ~fault
              /\ req' = [req EXCEPT ![i] = Reply(r, 400, "MISSING EMAIL OR PASSWORD")]
              /\ UNCHANGED <<nMinted, tokIat, tokUser>>
         ELSE IF fault
         THEN /\ req' = [req EXCEPT ![i] = Fail(r, "user", 500, "USER LOOKUP FAILED")]
              /\ UNCHANGED <<nMinted, tokIat, tokUser>>
         ELSE IF cred = "unknown"
         THEN /\ req' = [req EXCEPT ![i] = UnknownEmailReply(Log(r, "user"))]
              /\ UNCHANGED <<nMinted, tokIat, tokUser>>
         ELSE IF cred = "wrong"
         THEN /\ req' = [req EXCEPT ![i] = WrongPasswordReply(Log(r, "user"))]
              /\ UNCHANGED <<nMinted, tokIat, tokUser>>
         ELSE /\ generateUserTokens(2)
              /\ req' = [req EXCEPT ![i] =
                           [Log(r, "user") EXCEPT !.pc = "create", !.new = nMinted + 1]]
    /\ UNCHANGED <<now, tokenCache, tokenBlacklistCache, TokenStore, known,
                   signedOut, consumed>>

\* A create that retires the entry of the pair that was presented: the
\* ledger holds the newest pairing only.
CreateRecord_Retires(i) ==
    LET r == req[i] IN
    /\ Quiet /\ r.pc = "create"
    /\ TokenStore' = (TokenStore \ FindPairing(r.tok, r.cookie)) \cup {LedgerEntry(r.new)}
    /\ req' = [req EXCEPT ![i] = [Log(r, "create") EXCEPT !.pc = "cache"]]
    /\ UNCHANGED <<now, nMinted, tokIat, tokUser, tokenCache, tokenBlacklistCache,
                   known, signedOut, consumed>>

\* TokenStore.create({...}) of sign-in (lines 95-108) and refresh (363-377).
CreateRecord(i) ==
    LET r == req[i] IN
    /\ Quiet /\ r.pc = "create"
    /\ \E fault \in BOOLEAN :
         IF fault
         THEN /\ req' = [req EXCEPT ![i] =
                           Fail(r, "create", 500, "PROBLEM STORING CREDENTIALS")]
              /\ UNCHANGED TokenStore
         ELSE /\ TokenStore' = TokenStore \cup {LedgerEntry(r.new)}
              /\ req' = [req EXCEPT ![i] = [Log(r, "create") EXCEPT !.pc = "cache"]]
    /\ UNCHANGED <<now, nMinted, tokIat, tokUser, tokenCache, tokenBlacklistCache,
                   known, signedOut, consumed>>

\* An entry that is set with no lifetime.
IssueCacheTTL_Zero(k) == 0

\* An entry that is set for the lifetime the token has left.
IssueCacheTTL_Remaining(k) == TokExp(k) - now

\* The TTL sign-in and refresh give the session-cache entry of the new
\* access token: accessToken.exp - accessToken.iat.
IssueCacheTTL(k) == TokExp(k) - tokIat[k]

\* tokenCache.setKey of the new access token, the refresh cookie and the
\* response of sign-in (lines 123-159) and refresh (392-417).
CacheAndSend(i) ==
    LET r == req[i] IN
    /\ Quiet /\ r.pc = "cache"
    /\ \E fault \in BOOLEAN :
         IF fault
         THEN /\ req' = [req EXCEPT ![i] =
                           Fail(r, "set", 500, "PROBLEM STORING CREDENTIALS")]
              /\ UNCHANGED <<tokenCache, known>>
         ELSE /\ tokenCache' = [tokenCache EXCEPT ![r.new] =
                                  CacheEntry(Decoded(r.new), IssueCacheTTL(r.new))]
              /\ known' = known \cup {r.new}
              /\ req' = [req EXCEPT ![i] =
                           SendClaims(SetCookie(Log(r, "set"), r.new),
                                      tokUser[r.new], "token")]
    /\ UNCHANGED <<now, nMinted, tokIat, tokUser, tokenBlacklistCache, TokenStore,
                   signedOut, consumed>>

SignInCreate(i) == req[i].op = "signin" /\ CreateRecord(i)
SignInCache(i) == req[i].op = "signin" /\ CacheAndSend(i)

\* ============================================================ GET /authorize
\* A blacklist check that finds nothing.
BlacklistLookup_Skipped(r, fault) ==
    IF fault THEN "fault" ELSE "miss"

\* Lines 174-188, the same in /authorize and /refresh: the outcome of
\* tokenBlacklistCache.getKey(access_token) for request r, as the handler
\* sees it: "fault" (cacheError), "hit" (cachedVal) or "miss".
BlacklistLookup(r, fault) ==
    IF fault THEN "fault"
    ELSE IF Live(tokenBlacklistCache[r.tok]) THEN "hit" ELSE "miss"

\* A handler that only traces a faulted blacklist lookup and goes on to
\* the session cache.
BlacklistReject_FaultGoesOn(r, seen) ==
    IF seen = "fault"
    THEN [r EXCEPT !.pc = "cache"]
    ELSE Reply(ClearCookie(r), 401, "TOKEN INVALID")

\* The answer to a faulted or hit blacklist lookup (lines 179-188, 302-311).
BlacklistReject(r, seen) ==
    IF seen = "fault"
    THEN Reply(r, 500, "PROBLEM CHECKING BLACKLIST CACHE")
    ELSE Reply(ClearCookie(r), 401, "TOKEN INVALID")

\* Lines 164-188: the missing-token check and the blacklist check.
AuthBlacklist(i, t, c) ==
    LET r == NewReq("authorize", "bl", t, c) IN
    /\ Quiet /\ Free(i)
    /\ \E fault \in BOOLEAN :
         IF r.tok = NoTok
         THEN /\ ~fault
              /\ req' = [req EXCEPT ![i] =
                           Reply(r, 400, "MISSING AUTHORIZATION BEARER TOKEN")]
         ELSE LET seen == BlacklistLookup(r, fault)
                  r1 == [Log(r, "bl") EXCEPT !.bl = seen, !.fault = fault,
                                             !.blLive = Live(tokenBlacklistCache[r.tok])]
              IN req' = [req EXCEPT ![i] =
                           IF seen = "miss" THEN [r1 EXCEPT !.pc = "cache"]
                           ELSE BlacklistReject(r1, seen)]
    /\ UNCHANGED <<now, nMinted, tokIat, tokUser, tokenCache, tokenBlacklistCache,
                   TokenStore, known, signedOut, consumed>>

\* An error branch that clears the refresh cookie whatever the error is.
VerifyFallback_ClearsAlways(r) ==
    LET v == JwtVerify(r.tok)
        r1 == [Log(r, "verify") EXCEPT !.sig = v]
    IN IF v = "expired" THEN Reply(ClearCookie(r1), 401, "TOKEN EXPIRED")
       ELSE IF v = "invalid" THEN Reply(ClearCookie(r1), 401, "TOKEN INVALID")
       ELSE [r1 EXCEPT !.pc = "linkV", !.got = Decoded(r.tok).user]

\* Lines 239-252: jwt.verify on the cache-miss path and its error branch.
\* A valid token goes on to the refresh-cookie check.
VerifyFallback(r) ==
    LET v == JwtVerify(r.tok)
        r1 == [Log(r, "verify") EXCEPT !.sig = v]
    IN IF v = "expired" THEN Reply(r1, 401, "TOKEN EXPIRED")
       ELSE IF v = "invalid" THEN Reply(ClearCookie(r1), 401, "TOKEN INVALID")
       ELSE [r1 EXCEPT !.pc = "linkV", !.got = Decoded(r.tok).user]

\* A SYS branch that leaves the entry in the cache.
SysConsume_Kept(t) == tokenCache

\* Lines 206-211: what the cache-hit branch does to the session cache for a
\* token that starts with "SYS": tokenCache.deleteKey(access_token).
SysConsume(t) == [tokenCache EXCEPT ![t] = NoEntry]

\* Lines 203-252: tokenCache.getKey, the cache-read fault and, on a miss,
\* jwt.verify.  A hit on a token that starts with "SYS" goes on to the
\* SYS branch (AuthSysDelete): getKey and deleteKey are two commands to the
\* store, and commands of other requests can run between them.
AuthCache(i) ==
    LET r == req[i]
        e == tokenCache[r.tok]
    IN
    /\ Quiet /\ r.op = "authorize" /\ r.pc = "cache"
    /\ \E fault \in BOOLEAN :
         LET r1 == Log(r, "cache") IN
         IF ~fault /\ Live(e)
         THEN req' = [req EXCEPT ![i] =
                        [r1 EXCEPT !.ch = "hit", !.got = e.user,
                                   !.pc = IF HasSysPrefix(r.tok) THEN "sys" ELSE "linkC"]]
         ELSE IF fault
         THEN req' = [req EXCEPT ![i] =
                        Reply([r1 EXCEPT !.ch = "fault", !.fault = TRUE],
                              500, "PROBLEM READING CACHE")]
         ELSE req' = [req EXCEPT ![i] = VerifyFallback([r1 EXCEPT !.ch = "miss"])]
    /\ UNCHANGED <<now, nMinted, tokIat, tokUser, tokenCache, tokenBlacklistCache,
                   TokenStore, known, signedOut, consumed>>

\* Lines 206-211, the SYS branch: tokenCache.deleteKey(access_token), not
\* awaited, and res.send of the cached value read before.  The trace has
\* "del" when the command removed the entry and "del0" when the entry was
\* gone already (the reply of DEL, which the handler does not look at);
\* again is history: another request had been served the entry before.
AuthSysDelete(i) ==
    LET r == req[i] IN
    /\ Quiet /\ r.op = "authorize" /\ r.pc = "sys"
    /\ tokenCache' = SysConsume(r.tok)
    /\ consumed' = consumed \cup {r.tok}
    /\ req' = [req EXCEPT ![i] =
                 SendClaims([Log(r, IF Live(tokenCache[r.tok]) THEN "del" ELSE "del0")
                               EXCEPT !.again = (r.tok \in consumed)],
                            r.got, "claims")]
    /\ UNCHANGED <<now, nMinted, tokIat, tokUser, tokenBlacklistCache, TokenStore,
                   known, signedOut>>

\* validateRefreshTokenCookie(req, res, access_token) of ./utils/cookie:
\* "ok" when the cookie and the access token are one ledger entry, "reset"
\* when the cookie is missing or unpaired and the ledger has the entry of
\* the access token (the cookie is set again from it), "error" otherwise,
\* "fault" when the ledger cannot be read.
validateRefreshTokenCookie(r, fault) ==
    IF fault THEN "fault"
    ELSE IF r.cookie # NoTok /\ FindPairing(r.tok, r.cookie) # {} THEN "ok"
    ELSE IF \E e \in TokenStore : e.access_token = r.tok THEN "reset"
    ELSE "error"

\* The response after validateRefreshTokenCookie: its error (lines 222-226,
\* 261-265), or the request going on with the cookie it has set.
AfterLinkage(r, out) ==
    IF out = "fault" THEN Reply([r EXCEPT !.fault = TRUE], 500, "PROBLEM RESETTING REFRESH TOKEN")
    ELSE IF out = "error" THEN Reply(r, 401, "REFRESH TOKEN INVALID")
    ELSE IF out = "reset"
    THEN SetCookie(r, (CHOOSE e \in TokenStore : e.access_token = r.tok).refresh_token)
    ELSE r

\* Lines 216-229: the cache-hit path of a token without the SYS prefix.
AuthLinkCached(i) ==
    LET r == req[i] IN
    /\ Quiet /\ r.op = "authorize" /\ r.pc = "linkC"
    /\ \E fault \in BOOLEAN :
         LET r1 == AfterLinkage(Log(r, "link"), validateRefreshTokenCookie(r, fault))
         IN req' = [req EXCEPT ![i] =
                      IF r1.pc = "done" THEN r1 ELSE SendClaims(r1, r.got, "claims")]
    /\ UNCHANGED <<now, nMinted, tokIat, tokUser, tokenCache, tokenBlacklistCache,
                   TokenStore, known, signedOut, consumed>>

\* Lines 254-265: the refresh-cookie check of the fallback path.
AuthLinkVerified(i) ==
    LET r == req[i] IN
    /\ Quiet /\ r.op = "authorize" /\ r.pc = "linkV"
    /\ \E fault \in BOOLEAN :
         LET r1 == AfterLinkage(Log(r, "link"), validateRefreshTokenCookie(r, fault))
         IN req' = [req EXCEPT ![i] =
                      IF r1.pc = "done" THEN r1 ELSE [r1 EXCEPT !.pc = "set"]]
    /\ UNCHANGED <<now, nMinted, tokIat, tokUser, tokenCache, tokenBlacklistCache,
                   TokenStore, known, signedOut, consumed>>

\* The TTL the fallback path gives the session-cache entry (line 271):
\* decodedAccessToken.exp - decodedAccessToken.iat.
FallbackCacheTTL(k) == Decoded(k).exp - Decoded(k).iat

\* Lines 267-283: tokenCache.setKey of the decoded token and the response.
AuthSet(i) ==
    LET r == req[i] IN
    /\ Quiet /\ r.op = "authorize" /\ r.pc = "set"
    /\ \E fault \in BOOLEAN :
         IF fault
         THEN /\ req' = [req EXCEPT ![i] =
                           Fail(r, "set", 500, "PROBLEM STORING CREDENTIALS")]
              /\ UNCHANGED tokenCache
         ELSE /\ tokenCache' = [tokenCache EXCEPT ![r.tok] =
                                  CacheEntry(Decoded(r.tok), FallbackCacheTTL(r.tok))]
              /\ req' = [req EXCEPT ![i] = SendClaims(Log(r, "set"), r.got, "claims")]
    /\ UNCHANGED <<now, nMinted, tokIat, tokUser, tokenBlacklistCache, TokenStore,
                   known, signedOut, consumed>>

\* ============================================================ GET /refresh
\* Lines 290-320: the missing-token check, the blacklist check and the
\* missing-cookie check.
RefreshBlacklist(i, t, c) ==
    LET r == NewReq("refresh", "bl", t, c) IN
    /\ Quiet /\ Free(i)
    /\ (t \in Pairs /\ t = c) => nMinted + Minting < MaxTok
    /\ \E fault \in BOOLEAN :
         IF r.tok = NoTok
         THEN /\ ~fault
              /\ req' = [req EXCEPT ![i] =
                           Reply(r, 400, "MISSING AUTHORIZATION BEARER TOKEN")]
         ELSE LET seen == BlacklistLookup(r, fault)
                  r1 == [Log(r, "bl") EXCEPT !.bl = seen, !.fault = fault,
                                             !.blLive = Live(tokenBlacklistCache[r.tok])]
              IN req' = [req EXCEPT ![i] =
                           IF seen # "miss" THEN BlacklistReject(r1, seen)
                           ELSE IF r.cookie = NoTok
                           THEN Reply(r1, 401, "REFRESH TOKEN INVALID")
                           ELSE [r1 EXCEPT !.pc = "find"]]
    /\ UNCHANGED <<now, nMinted, tokIat, tokUser, tokenCache, tokenBlacklistCache,
                   TokenStore, known, signedOut, consumed>>

\* A pairing lookup that takes the entry out of the ledger
\* (findOneAndDelete): the exchange of a pair becomes single-use.
RefreshFind_Consumes(i) ==
    LET r == req[i]
        found == FindPairing(r.tok, r.cookie)
        peers == {req[j].new : j \in {k \in Slots :
                     /\ k # i /\ req[k].op = "refresh" /\ req[k].new # 0
                     /\ req[k].pc = "create"
                     /\ req[k].tok = r.tok /\ req[k].cookie = r.cookie}}
        r1 == [Log(r, "find") EXCEPT
                 !.paired = IF found # {} THEN "yes" ELSE "no",
                 !.peer = IF peers = {} THEN 0 ELSE CHOOSE k \in peers : TRUE]
    IN
    /\ Quiet /\ r.op = "refresh" /\ r.pc = "find"
    /\ TokenStore' = TokenStore \ found
    /\ req' = [req EXCEPT ![i] =
                 IF found = {}
                 THEN Reply(ClearCookie(r1), 401,
                            "NO RECORD OF CURRENT TOKEN PAIRING EXISTS")
                 ELSE [r1 EXCEPT !.pc = "user",
                                 !.got = (CHOOSE e \in found : TRUE).user_id]]
    /\ UNCHANGED <<now, nMinted, tokIat, tokUser, tokenCache, tokenBlacklistCache,
                   known, signedOut, consumed>>

\* Lines 322-339: TokenStore.findOne({ access_token, refresh_token }).
RefreshFind(i) ==
    LET r == req[i]
        found == FindPairing(r.tok, r.cookie)
        truth == {e \in TokenStore : e.access_token = r.tok /\ e.refresh_token = r.cookie}
        \* history: the new pair of a /refresh of the same pair that is in
        \* flight between its own lookup and its TokenStore.create when
        \* this lookup is made
        peers == {req[j].new : j \in {k \in Slots :
                     /\ k # i /\ req[k].op = "refresh" /\ req[k].new # 0
                     /\ req[k].pc = "create"
                     /\ req[k].tok = r.tok /\ req[k].cookie = r.cookie}}
    IN
    /\ Quiet /\ r.op = "refresh" /\ r.pc = "find"
    /\ \E fault \in BOOLEAN :
         LET r1 == [Log(r, "find") EXCEPT
                      !.paired = IF truth # {} THEN "yes" ELSE "no",
                      !.peer = IF peers = {} THEN 0 ELSE CHOOSE k \in peers : TRUE,
                      !.fault = fault] IN
         req' = [req EXCEPT ![i] =
                   IF fault THEN Reply(r1, 500, "PROBLEM RETRIEVING TOKEN RECORD")
                   ELSE IF found = {}
                   THEN Reply(ClearCookie(r1), 401,
                              "NO RECORD OF CURRENT TOKEN PAIRING EXISTS")
                   ELSE [r1 EXCEPT !.pc = "user",
                                   !.got = (CHOOSE e \in found : TRUE).user_id]]
    /\ UNCHANGED <<now, nMinted, tokIat, tokUser, tokenCache, tokenBlacklistCache,
                   TokenStore, known, signedOut, consumed>>

\* Lines 341-359: fetchUserById and generateUserTokens.
RefreshUser(i) ==
    LET r == req[i] IN
    /\ Quiet /\ r.op = "refresh" /\ r.pc = "user"
    /\ \E fault \in BOOLEAN :
         IF fault
         THEN /\ req' = [req EXCEPT ![i] = Fail(r, "user", 500, "USER LOOKUP FAILED")]
              /\ UNCHANGED <<nMinted, tokIat, tokUser>>
         ELSE /\ nMinted < MaxTok
              /\ generateUserTokens(r.got)
              /\ req' = [req EXCEPT ![i] =
                           [Log(r, "user") EXCEPT !.pc = "create", !.new = nMinted + 1]]
    /\ UNCHANGED <<now, tokenCache, tokenBlacklistCache, TokenStore, known,
                   signedOut, consumed>>

RefreshCreate(i) == req[i].op = "refresh" /\ CreateRecord(i)
RefreshCache(i) == req[i].op = "refresh" /\ CacheAndSend(i)

\* ============================================================ GET /sign-out
\* A sign-out that does not look at the blacklist.
SignOutLookup_Ignored(r, fault) == "miss"

\* Lines 432-445: what sign-out makes of tokenBlacklistCache.getKey: a
\* cacheError is traced and the handler goes on with cachedVal undefined.
SignOutLookup(r, fault) ==
    IF fault THEN "miss"
    ELSE IF Live(tokenBlacklistCache[r.tok]) THEN "hit" ELSE "miss"

\* Lines 422-452: the missing-token check, the blacklist check and jwt.verify.
SignOutBlacklist(i, t) ==
    LET r == NewReq("signout", "bl", t, NoTok) IN
    /\ Quiet /\ Free(i)
    /\ \E fault \in BOOLEAN :
         IF r.tok = NoTok
         THEN /\ ~fault
              /\ req' = [req EXCEPT ![i] =
                           Reply(r, 400, "MISSING AUTHORIZATION BEARER TOKEN")]
         ELSE LET seen == SignOutLookup(r, fault)
                  v == JwtVerify(r.tok)
                  r1 == [Log(r, "bl") EXCEPT !.bl = IF fault THEN "fault" ELSE seen,
                                             !.fault = fault, !.blLive = Live(tokenBlacklistCache[r.tok])]
                  r2 == [Log(r1, "verify") EXCEPT !.sig = v]
              IN req' = [req EXCEPT ![i] =
                           IF seen = "hit" THEN Reply(r1, 400, "TOKEN ALREADY BLACKLISTED")
                           ELSE IF v # "valid" THEN Reply(r2, 400, "TOKEN ALREADY INVALID")
                           ELSE [r2 EXCEPT !.pc = "set"]]
    /\ UNCHANGED <<now, nMinted, tokIat, tokUser, tokenCache, tokenBlacklistCache,
                   TokenStore, known, signedOut, consumed>>

\* The TTL of the blacklist entry (lines 454-460): exp - iat of the decoded token.
BlacklistTTL(k) == Decoded(k).exp - Decoded(k).iat

\* A sign-out that also drops the session-cache entry of the token.
SignOutSet_DropsSession(i) ==
    LET r == req[i] IN
    /\ Quiet /\ r.op = "signout" /\ r.pc = "set"
    /\ tokenBlacklistCache' = [tokenBlacklistCache EXCEPT ![r.tok] =
          [until |-> now + BlacklistTTL(r.tok), created_at |-> now]]
    /\ tokenCache' = [tokenCache EXCEPT ![r.tok] = NoEntry]
    /\ signedOut' = signedOut \cup {r.tok}
    /\ req' = [req EXCEPT ![i] =
                 [Reply(Log(r, "set"), 200, "SUCCESS") EXCEPT !.body = "SUCCESS"]]
    /\ UNCHANGED <<now, nMinted, tokIat, tokUser, TokenStore, known, consumed>>

\* Lines 454-468: tokenBlacklistCache.setKey and the response.  When setKey
\* fails, res.send(500) answers with status 500.
SignOutSet(i) ==
    LET r == req[i] IN
    /\ Quiet /\ r.op = "signout" /\ r.pc = "set"
    /\ \E fault \in BOOLEAN :
         IF fault
         THEN /\ req' = [req EXCEPT ![i] =
                           Fail(r, "set", 500, "Internal Server Error")]
              /\ UNCHANGED <<tokenBlacklistCache, signedOut>>
         ELSE /\ tokenBlacklistCache' = [tokenBlacklistCache EXCEPT ![r.tok] =
                    [until |-> now + BlacklistTTL(r.tok), created_at |-> now]]
              /\ signedOut' = signedOut \cup {r.tok}
              /\ req' = [req EXCEPT ![i] =
                           [Reply(Log(r, "set"), 200, "SUCCESS") EXCEPT !.body = "SUCCESS"]]
    /\ UNCHANGED <<now, nMinted, tokIat, tokUser, tokenCache, TokenStore, known, consumed>>

\* ===================================== AuthorizeController.executeImpl
\* The controller reaches the stores through TokenBlacklist and
\* AuthTokenCache and answers through BaseController; their methods return
\* plain values (a boolean, a payload or null), so the controller has no
\* fault branch of its own.
\* BaseController.invalidToken(res) and BaseController.expiredToken(res).
InvalidToken(r) == Reply(ClearCookie(r), 401, "TOKEN INVALID")
ExpiredToken(r) == Reply(r, 401, "TOKEN EXPIRED")

\* Lines 23-33: 1) the token is present, 2) it is not blacklisted.
ControllerBlacklist(i, t, c) ==
    LET r == NewReq("controller", "bl", t, c) IN
    /\ Quiet /\ Free(i)
    /\ IF r.tok = NoTok
       THEN req' = [req EXCEPT ![i] = Reply(r, 400, "MISSING AUTHORIZATION BEARER TOKEN")]
       ELSE LET hit == Live(tokenBlacklistCache[r.tok])
                r1 == [Log(r, "bl") EXCEPT !.bl = IF hit THEN "hit" ELSE "miss",
                                           !.blLive = hit]
            IN req' = [req EXCEPT ![i] =
                         IF hit THEN InvalidToken(r1) ELSE [r1 EXCEPT !.pc = "cache"]]
    /\ UNCHANGED <<now, nMinted, tokIat, tokUser, tokenCache, tokenBlacklistCache,
                   TokenStore, known, signedOut, consumed>>

\* Lines 35-61: 4) the cached payload is returned if there is one, 5) if
\* not the token is verified, 6) and rejected if expired or invalid.
ControllerCache(i) ==
    LET r == req[i]
        e == tokenCache[r.tok]
        r1 == Log(r, "cache")
    IN
    /\ Quiet /\ r.op = "controller" /\ r.pc = "cache"
    /\ req' = [req EXCEPT ![i] =
         IF Live(e) THEN SendClaims([r1 EXCEPT !.ch = "hit"], e.user, "claims")
         ELSE LET v == JwtVerify(r.tok)
                  r2 == [Log(r1, "verify") EXCEPT !.ch = "miss", !.sig = v]
              IN IF v = "expired" THEN ExpiredToken(r2)
                 ELSE IF v = "invalid" THEN InvalidToken(r2)
                 ELSE [r2 EXCEPT !.pc = "set", !.got = Decoded(r.tok).user]]
    /\ UNCHANGED <<now, nMinted, tokIat, tokUser, tokenCache, tokenBlacklistCache,
                   TokenStore, known, signedOut, consumed>>

\* Line 67: "7) calculate remaining lifespan": const ttl = exp - iat.
ControllerCacheTTL(k) == Decoded(k).exp - Decoded(k).iat

\* Lines 63-73: the payload without exp and iat is cached for ttl and sent.
ControllerSet(i) ==
    LET r == req[i]
        payload == [Decoded(r.tok) EXCEPT !.iat = 0, !.exp = 0]
    IN
    /\ Quiet /\ r.op = "controller" /\ r.pc = "set"
    /\ tokenCache' = [tokenCache EXCEPT ![r.tok] =
                        CacheEntry(payload, ControllerCacheTTL(r.tok))]
    /\ req' = [req EXCEPT ![i] = SendClaims(Log(r, "set"), r.got, "claims")]
    /\ UNCHANGED <<now, nMinted, tokIat, tokUser, tokenBlacklistCache, TokenStore,
                   known, signedOut, consumed>>

\* ============================================================ User (User.ts)
\* A slot also holds a User object whose initByEmail or initByID is being
\* awaited: key is the e-mail or id asked for (that of user k, or NoUser for
\* one that no user has), got is _user (NoUser is null), pc is the state of
\* the promise that the method returned.
\* fetchUserByEmail / fetchUserById of ./users, when the lookup works: the
\* record of the user, or null.
fetchUser(key) == IF key \in Users THEN key ELSE NoUser

\* Lines 11-13: exists(): this._user !== null.
UserExists(r) == r.got # NoUser

\* Lines 15-17 and 24-26: the constructor has set _user to null; the
\* method starts the lookup and returns a new promise.
UserInit(i, how, key) ==
    /\ Quiet /\ Free(i)
    /\ req' = [req EXCEPT ![i] =
                 [Idle EXCEPT !.op = how, !.pc = "fetch", !.key = key, !.got = NoUser]]
    /\ UNCHANGED <<now, nMinted, tokIat, tokUser, tokenCache, tokenBlacklistCache,
                   TokenStore, known, signedOut, consumed>>

\* Lines 17-20 and 26-29: the lookup settles.  When it fulfils, the then
\* callback sets _user and resolves the promise.  When it rejects there is
\* no handler: the callback does not run and nothing ever calls resolve (the
\* executor takes no reject), so the promise stays pending; the rejection
\* is unhandled, which the runtime either only reports ("pending") or ends
\* the process for ("crashed").
UserLookupSettles(i) ==
    LET r == req[i] IN
    /\ Quiet /\ r.op \in {"initByEmail", "initByID"} /\ r.pc = "fetch"
    /\ \E fault \in BOOLEAN :
         IF fault
         THEN \E end \in {"pending", "crashed"} :
                req' = [req EXCEPT ![i] = [Log(r, "lookup") EXCEPT !.fault = TRUE, !.pc = end]]
         ELSE req' = [req EXCEPT ![i] =
                        [Log(r, "lookup") EXCEPT !.got = fetchUser(r.key), !.pc = "done",
                                                 !.code = "RESOLVED"]]
    /\ UNCHANGED <<now, nMinted, tokIat, tokUser, tokenCache, tokenBlacklistCache,
                   TokenStore, known, signedOut, consumed>>

\* ============================================================ system tokens
\* fetchUserByEmail(email, tokenCache) and fetchUserById(user_id, tokenCache)
\* are handed the session cache: a token that starts with "SYS" is put in
\* it, once, with SYSTEM claims, for the service that is asked for the user.
CacheSystemToken ==
    /\ Quiet
    /\ SysTok \notin known
    /\ tokenCache' = [tokenCache EXCEPT ![SysTok] =
          CacheEntry([type |-> "SYSTEM", user |-> NoUser, iat |-> now,
                      exp |-> now + AccessTTL], AccessTTL)]
    /\ known' = known \cup {SysTok}
    /\ UNCHANGED <<now, nMinted, tokIat, tokUser, tokenBlacklistCache, TokenStore,
                   req, signedOut, consumed>>

\* ============================================================ specification
\* What a caller can present: no token, a string of its own making, a
\* token that starts with "SYS", or a token it has received.
Presentable == {NoTok, BadTok, SysTok} \cup (known \cap Pairs)
Cookies == {NoTok} \cup (known \cap Pairs)
\* The cookie classes of /authorize: none, or the one issued with the token.
OwnCookie(t) == {NoTok} \cup ({t} \cap known \cap Pairs)

\* The response leaves: the slot is free for the next request.
Respond(i) ==
    /\ req[i].pc = "done" /\ req[i].op # "idle"
    /\ req' = [req EXCEPT ![i] = Idle]
    /\ UNCHANGED <<now, nMinted, tokIat, tokUser, tokenCache, tokenBlacklistCache,
                   TokenStore, known, signedOut, consumed>>

SignInStep(i) ==
    \/ \E cred \in Credentials : SignInFetch(i, cred)
    \/ SignInCreate(i)
    \/ SignInCache(i)

AuthorizeStep(i) ==
    \/ \E t \in Presentable : \E c \in OwnCookie(t) : AuthBlacklist(i, t, c)
    \/ AuthCache(i)
    \/ AuthSysDelete(i)
    \/ AuthLinkCached(i)
    \/ AuthLinkVerified(i)
    \/ AuthSet(i)

\* /authorize called with a token that the service has issued.
AuthorizeUserStep(i) ==
    \/ \E t \in known \cap Pairs : \E c \in OwnCookie(t) : AuthBlacklist(i, t, c)
    \/ AuthCache(i)
    \/ AuthLinkCached(i)
    \/ AuthLinkVerified(i)
    \/ AuthSet(i)

RefreshStep(i) ==
    \/ \E t \in Presentable \ {SysTok}, c \in Cookies : RefreshBlacklist(i, t, c)
    \/ RefreshFind(i)
    \/ RefreshUser(i)
    \/ RefreshCreate(i)
    \/ RefreshCache(i)

SignOutStep(i) ==
    \/ \E t \in Presentable : SignOutBlacklist(i, t)
    \/ SignOutSet(i)

\* /refresh called with an issued access token and the refresh token
\* issued with it.
RefreshOwnStep(i) ==
    \/ \E t \in known \cap Pairs : RefreshBlacklist(i, t, t)
    \/ RefreshFind(i)
    \/ RefreshUser(i)
    \/ RefreshCreate(i)
    \/ RefreshCache(i)

\* /sign-out of the pair the service starts with.
SignOutFirst(i) ==
    \/ SignOutBlacklist(i, 1)
    \/ SignOutSet(i)

ControllerStep(i) ==
    \/ \E t \in Presentable : ControllerBlacklist(i, t, NoTok)
    \/ ControllerCache(i)
    \/ ControllerSet(i)

\* The whole service.
Next ==
    \/ Tick
    \/ CacheSystemToken
    \/ \E i \in Slots :
         \/ Respond(i)
         \/ SignInStep(i)
         \/ AuthorizeStep(i)
         \/ RefreshStep(i)
         \/ SignOutStep(i)
         \/ ControllerStep(i)

Spec == Init /\ [][Next]_vars

\* The service as the holders of issued tokens use it: /authorize (both
\* implementations) and /sign-out.
NextSession ==
    \/ Tick
    \/ CacheSystemToken
    \/ \E i \in Slots :
         \/ Respond(i)
         \/ AuthorizeStep(i)
         \/ SignOutStep(i)
         \/ ControllerStep(i)

SpecSession == Init /\ [][NextSession]_vars

\* The service as it issues tokens: /sign-in and /refresh, and /sign-out
\* of the first pair.  /sign-in and /refresh check no expiry and read no
\* TTL-bound entry but the blacklist, so the clock stands still here.
NextIssue ==
    \E i \in Slots :
         \/ Respond(i)
         \/ SignInStep(i)
         \/ RefreshStep(i)
         \/ SignOutFirst(i)

SpecIssue == Init /\ [][NextIssue]_vars

\* One /sign-in at a time and, next to it, the /authorize calls of the
\* callers that have been given tokens, with the clock running.
NextSignIn ==
    \/ Tick
    \/ \E i \in Slots : Respond(i)
    \/ SignInStep(1)
    \/ AuthorizeUserStep(2)

SpecSignIn == Init /\ [][NextSignIn]_vars

\* User objects being initialised, two at a time.
NextUser ==
    \E i \in Slots :
         \/ Respond(i)
         \/ \E how \in {"initByEmail", "initByID"}, key \in Users \cup {NoUser} :
              UserInit(i, how, key)
         \/ UserLookupSettles(i)

SpecUser == Init /\ [][NextUser]_vars

\* /refresh alone, two requests at a time, each with a pair that has been
\* issued, with the clock running: every pair but the first is one that a
\* /refresh has issued.
NextRotate ==
    \/ Tick
    \/ \E i \in Slots :
         \/ Respond(i)
         \/ RefreshOwnStep(i)

SpecRotate == Init /\ [][NextRotate]_vars

\* The four operations over the ledger: /sign-in and /refresh, which write
\* it, two at a time, and next to them /authorize with issued tokens and
\* /sign-out of the first pair.  Nothing the ledger holds depends on the
\* clock, which stands still here.
NextLedger ==
    \/ \E i \in Slots :
         \/ Respond(i)
         \/ SignInStep(i)
         \/ RefreshStep(i)
    \/ AuthorizeUserStep(2)
    \/ SignOutFirst(2)

SpecLedger == Init /\ [][NextLedger]_vars

\* ============================================================ properties
Has(tr, ev) == \E n \in DOMAIN tr : tr[n] = ev
Before(tr, a, b) == \E m, n \in DOMAIN tr : m < n /\ tr[m] = a /\ tr[n] = b
IsAuthorize(r) == r.op \in {"authorize", "controller"}

\* C1: an authorize request whose token has a live blacklist entry when
\* the blacklist is looked up is rejected there and then: no claims, no
\* cache read, no signature verification; /authorize answers 401 TOKEN
\* INVALID and clears the refresh cookie (500 when the lookup itself fails).
C1_BlacklistedIsRejected ==
    \A i \in Slots : LET r == req[i] IN
      (IsAuthorize(r) /\ r.blLive) =>
        /\ r.pc = "done" /\ r.body = "none" /\ r.status # 200
        /\ r.ch = "none" /\ r.sig = "none"
        /\ (r.bl # "fault" /\ r.op = "authorize") =>
              (r.status = 401 /\ r.code = "TOKEN INVALID" /\ r.cookieOp = "clear")
        /\ r.bl = "fault" => r.status = 500

\* C1 witness: /authorize has rejected a blacklisted token that is still
\* cached and whose signature is valid and unexpired.
C1_Witness ==
    \E i \in Slots : LET r == req[i] IN
      /\ r.op = "authorize" /\ r.blLive /\ r.status = 401 /\ r.cookieOp = "clear"
      /\ Live(tokenCache[r.tok]) /\ JwtVerify(r.tok) = "valid"

\* C2: in every authorize request the blacklist lookup comes first, the
\* session cache is read only after a blacklist miss, the signature is
\* verified only after a cache miss, never after a cache hit, and the cache
\* is never read after a blacklist hit or fault.
C2_StepOrder ==
    \A i \in Slots : LET r == req[i] IN
      IsAuthorize(r) =>
        /\ r.trace # <<>> => r.trace[1] = "bl"
        /\ Has(r.trace, "cache") => (Before(r.trace, "bl", "cache") /\ r.bl = "miss")
        /\ Has(r.trace, "verify") => (Before(r.trace, "cache", "verify") /\ r.ch = "miss")
        /\ r.ch = "hit" => ~Has(r.trace, "verify")
        /\ r.bl \in {"hit", "fault"} => ~Has(r.trace, "cache")

\* C2 witness: a request went through blacklist, cache miss and signature
\* verification, in that order, and was answered with claims.
C2_Witness ==
    \E i \in Slots : LET r == req[i] IN
      /\ IsAuthorize(r) /\ r.status = 200
      /\ Before(r.trace, "bl", "cache") /\ Before(r.trace, "cache", "verify")

\* No ledger entry has both the access token and the cookie of request r.
NoMatch(r) ==
    ~ \E e \in TokenStore : e.access_token = r.tok /\ e.refresh_token = r.cookie

\* C3: /refresh signs a new pair and succeeds only for a presented pair
\* that one ledger entry matches on both fields; a pair that no entry
\* matches is never answered 200 and gets no new pair, and when it reaches
\* the pairing lookup it is answered 401 NO RECORD OF CURRENT TOKEN PAIRING
\* EXISTS with the refresh cookie cleared.
C3_RefreshNeedsPairing ==
    \A i \in Slots : LET r == req[i] IN
      r.op = "refresh" =>
        /\ (r.new # 0 \/ r.status = 200) => (r.paired = "yes" /\ ~NoMatch(r))
        /\ NoMatch(r) => (r.new = 0 /\ r.status # 200 /\ r.pc # "user")
        /\ (r.paired = "no" /\ ~r.fault) =>
              /\ r.pc = "done" /\ r.status = 401
              /\ r.code = "NO RECORD OF CURRENT TOKEN PAIRING EXISTS"
              /\ r.cookieOp = "clear" /\ r.new = 0

\* C3 witness: the access token of one ledger entry with the refresh token
\* of another was refused at the pairing lookup.
C3_Witness ==
    \E i \in Slots : LET r == req[i] IN
      /\ r.op = "refresh" /\ r.tok # r.cookie /\ r.status = 401 /\ r.paired = "no"
      /\ \E e \in TokenStore : e.access_token = r.tok
      /\ \E e \in TokenStore : e.refresh_token = r.cookie

\* C4: an authorize request that starts after /sign-out has answered
\* SUCCESS for its token never returns claims.
C4_NoClaimsAfterSignOut ==
    \A i \in Slots : LET r == req[i] IN
      (r.op = "authorize" /\ r.afterOut) => r.body # "claims"

\* C5: a live session-cache entry of an issued access token expires no
\* later than the exp of that token.
C5_CacheWithinExp ==
    \A t \in Pairs : Live(tokenCache[t]) => tokenCache[t].until <= TokExp(t)

\* C6: the blacklist entry of a token expires exactly at the exp of the
\* token (its TTL is the time remaining until exp).
C6_BlacklistUntilExp ==
    \A t \in Pairs :
      Live(tokenBlacklistCache[t]) => tokenBlacklistCache[t].until = TokExp(t)

C8_Answers ==
    \A i \in Slots : LET r == req[i] IN
      r.op = "signout" =>
        /\ r.body = "SUCCESS" =>
              /\ Live(tokenBlacklistCache[r.tok])
              /\ tokenBlacklistCache[r.tok].created_at = now
        /\ (r.afterOut /\ r.bl # "fault" /\ r.sig # "expired") =>
              /\ r.bl = "hit" /\ r.pc = "done" /\ r.status = 400
              /\ r.code = "TOKEN ALREADY BLACKLISTED"

\* The step part of C8: the call that answers TOKEN ALREADY BLACKLISTED
\* leaves the blacklist as it is.
C8_NoRewrite ==
    \A i \in Slots :
      (req'[i] # req[i] /\ req'[i].op = "signout" /\ req'[i].bl = "hit")
         => tokenBlacklistCache' = tokenBlacklistCache

\* C8: the /sign-out that answers SUCCESS has created the blacklist entry;
\* a /sign-out of the same token that starts afterwards, while the token is
\* unexpired, answers 400 TOKEN ALREADY BLACKLISTED and leaves the entry
\* (value and expiry) unchanged.
C8_SignOutTwice == []C8_Answers /\ [][C8_NoRewrite]_vars

\* C8 witness: a second /sign-out of a valid, unexpired token was answered
\* TOKEN ALREADY BLACKLISTED.
C8_Witness ==
    \E i \in Slots : LET r == req[i] IN
      /\ r.op = "signout" /\ r.afterOut /\ JwtVerify(r.tok) = "valid"
      /\ r.code = "TOKEN ALREADY BLACKLISTED"

\* C9: a request in which a call to the blacklist, the session cache or
\* the ledger failed has ended with a 500: it has not gone on past the
\* failed call.
C9_StoreFaultIsFatal ==
    \A i \in Slots : LET r == req[i] IN
      r.fault => (r.pc = "done" /\ r.status = 500)

\* The state part of C10.
C10_Answers ==
    \A i \in Slots : LET r == req[i] IN
      (r.op = "signin" /\ r.cred \in {"unknown", "wrong"} /\ ~r.fault) =>
        /\ r.pc = "done" /\ r.status = 401
        /\ r.code = "EMAIL/PASSWORD COMBINATION NOT RECOGNIZED"
        /\ r.body = "none" /\ r.cookieOp = "none" /\ r.new = 0

\* The step part of C10: the rejected sign-in writes nothing.
C10_NoWrite ==
    \A i \in Slots :
      (req'[i] # req[i] /\ req'[i].op = "signin" /\ req'[i].cred \in {"unknown", "wrong"})
         => UNCHANGED <<TokenStore, tokenCache, tokenBlacklistCache, nMinted>>

\* C10: /sign-in answers an unknown e-mail and a wrong password with the
\* same status and error code, 401 EMAIL/PASSWORD COMBINATION NOT
\* RECOGNIZED, sets no cookie and writes neither ledger nor cache.
C10_SameRejection == []C10_Answers /\ [][C10_NoWrite]_vars

\* C10 witness: a sign-in with an unknown e-mail was rejected.
C10_Witness ==
    \E i \in Slots : LET r == req[i] IN
      /\ r.op = "signin" /\ r.cred = "unknown" /\ r.status = 401

\* Pairs that /sign-in has handed to a caller in this run (pair 1 is the
\* pair the service starts with; SpecSignIn has no other issuer).
SignedIn == (known \cap Pairs) \ {1}

\* C11: while the session-cache entry that /sign-in wrote for the access
\* token it returned is live, an /authorize call with that token and the
\* refresh cookie of that sign-in, without store fault, hits the cache,
\* does not verify the signature and answers 200 with the claims that
\* /sign-in returned; the entry holds those claims and is live at least
\* until the token expires.
C11_CachedAfterSignIn ==
    /\ \A k \in SignedIn :
          /\ now < TokExp(k) => Live(tokenCache[k])
          /\ Live(tokenCache[k]) =>
                (tokenCache[k].type = "USER" /\ tokenCache[k].user = tokUser[k])
    /\ \A i \in Slots : LET r == req[i] IN
          /\ (r.op = "signin" /\ r.status = 200) =>
                (r.claims = tokUser[r.new] /\ r.cookieVal = r.new /\ r.new \in SignedIn)
          /\ (r.op = "authorize" /\ r.tok \in SignedIn /\ r.cookie = r.tok
                /\ ~r.fault /\ r.ch # "none" /\ Live(tokenCache[r.tok])) =>
                /\ r.ch = "hit" /\ r.sig = "none" /\ ~Has(r.trace, "verify")
                /\ r.pc = "done" =>
                      (r.status = 200 /\ r.body = "claims" /\ r.claims = tokUser[r.tok])

\* C11 witness: /authorize has answered the token of a sign-in with its
\* claims from the cache.
C11_Witness ==
    \E i \in Slots : LET r == req[i] IN
      /\ r.op = "authorize" /\ r.tok \in SignedIn /\ r.cookie = r.tok
      /\ r.status = 200 /\ r.ch = "hit" /\ r.claims = tokUser[r.tok]

\* C12: every live session-cache entry of an issued access token holds the
\* access_type, authenticated_user, iat and exp that verifying the token
\* decodes.
C12_CacheHoldsDecoded ==
    \A t \in Pairs :
      Live(tokenCache[t]) =>
        /\ tokenCache[t].type = Decoded(t).type
        /\ tokenCache[t].user = Decoded(t).user
        /\ tokenCache[t].iat = Decoded(t).iat
        /\ tokenCache[t].exp = Decoded(t).exp

\* The state part of C13.
C13_Answers ==
    \A i \in Slots : LET r == req[i] IN
      /\ (r.op = "authorize" /\ r.sig = "expired") =>
            /\ r.ch = "miss" /\ r.pc = "done" /\ r.status = 401
            /\ r.code = "TOKEN EXPIRED" /\ r.cookieOp = "none"
            /\ r.body = "none" /\ ~Has(r.trace, "set")
      /\ (r.op = "authorize" /\ r.sig = "invalid") =>
            /\ r.ch = "miss" /\ r.pc = "done" /\ r.status = 401
            /\ r.code = "TOKEN INVALID" /\ r.cookieOp = "clear"
            /\ r.body = "none" /\ ~Has(r.trace, "set")
      /\ (r.op = "controller" /\ r.sig \in {"expired", "invalid"}) =>
            /\ r.ch = "miss" /\ r.pc = "done" /\ r.status # 200
            /\ r.body = "none" /\ ~Has(r.trace, "set")

\* The step part of C13: the step that rejects the token leaves the session
\* cache as it is.
C13_NoWrite ==
    \A i \in Slots :
      (req'[i] # req[i] /\ IsAuthorize(req'[i])
         /\ req'[i].sig \in {"expired", "invalid"}) => tokenCache' = tokenCache

\* C13: on the cache-miss path of authorize an expired token is answered
\* 401 TOKEN EXPIRED with the refresh cookie untouched, a token that does
\* not verify for another reason is answered 401 TOKEN INVALID with the
\* refresh cookie cleared, and neither writes to the session cache.
C13_FallbackRejects == []C13_Answers /\ [][C13_NoWrite]_vars

\* C13 witness: /authorize has rejected an expired token that came with its
\* refresh cookie, and has left the cookie alone.
C13_Witness ==
    \E i \in Slots : LET r == req[i] IN
      /\ r.op = "authorize" /\ r.sig = "expired" /\ r.cookie # NoTok
      /\ r.code = "TOKEN EXPIRED" /\ r.cookieOp = "none"

\* Pair k is one that later calls accept: the ledger pairs its two tokens,
\* its session-cache entry is live and its signature verifies.
Accepted(k) ==
    /\ LedgerEntry(k) \in TokenStore /\ FindPairing(k, k) # {}
    /\ Live(tokenCache[k]) /\ JwtVerify(k) = "valid"

\* C14: a /refresh whose pairing lookup is made while another /refresh of
\* the same pair is in flight, past its own lookup and before its ledger
\* write, is not shut out by it: the pair is still found, and without a
\* store fault the request answers 200 with a new pair of its own, other
\* than the peer's, that later calls accept; so does the peer's pair once
\* the peer has answered.
C14_RefreshNotExclusive ==
    \A i \in Slots : LET r == req[i] IN
      (r.op = "refresh" /\ r.peer # 0) =>
        /\ r.paired = "yes"
        /\ r.new # r.peer
        /\ (r.pc = "done" /\ ~r.fault) =>
              /\ r.status = 200 /\ r.new # 0 /\ r.cookieVal = r.new
              /\ Accepted(r.new)
        /\ r.peer \in known => Accepted(r.peer)

\* C14 witness: two /refresh calls with the same pair overlapped and both
\* succeeded, with two different new pairs that are both in the ledger.
C14_Witness ==
    \E i \in Slots : LET r == req[i] IN
      /\ r.op = "refresh" /\ r.status = 200 /\ r.peer # 0 /\ r.peer \in known
      /\ r.new # r.peer /\ Accepted(r.new) /\ Accepted(r.peer)
      /\ FindPairing(r.tok, r.cookie) # {}

\* The state part of C15.
C15_Entries ==
    /\ [user_id |-> 1, access_token |-> 1, refresh_token |-> 1] \in TokenStore
    /\ \A k \in Pairs :
          /\ Cardinality({e \in TokenStore : e.access_token = k}) <= 1
          /\ k \in known => LedgerEntry(k) \in TokenStore
    /\ \A i \in Slots : LET r == req[i] IN
          /\ (r.op \in {"signin", "refresh"} /\ r.status = 200) =>
                LedgerEntry(r.new) \in TokenStore
          /\ (r.op = "refresh" /\ r.status = 200) => FindPairing(r.tok, r.cookie) # {}

\* The step part of C15: a step takes nothing out of the ledger, and what
\* it adds is the one entry of the pair that the /sign-in or /refresh
\* making the step has signed.
C15_Append ==
    /\ TokenStore \subseteq TokenStore'
    /\ TokenStore' # TokenStore =>
          \E i \in Slots :
            /\ req[i].op \in {"signin", "refresh"}
            /\ req[i].pc = "create" /\ req'[i].pc = "cache"
            /\ LedgerEntry(req[i].new) \notin TokenStore
            /\ TokenStore' = TokenStore \cup {LedgerEntry(req[i].new)}

\* C15: the ledger is append-only: a successful /sign-in or /refresh has
\* added exactly one entry, that of the pair it issued; no step of any
\* operation removes or changes an entry; the pair presented to a
\* successful /refresh is still found afterwards.
C15_LedgerAppendOnly == []C15_Entries /\ [][C15_Append]_vars

\* C15 witness: after a successful /refresh the ledger holds the entry of
\* the pair that was presented next to the entry of the new pair.
C15_Witness ==
    \E i \in Slots : LET r == req[i] IN
      /\ r.op = "refresh" /\ r.status = 200
      /\ LedgerEntry(r.tok) \in TokenStore /\ LedgerEntry(r.new) \in TokenStore
      /\ r.new # r.tok

\* The state part of C16.
C16_Answers ==
    \A i \in Slots : LET r == req[i] IN
      (r.op = "signout" /\ r.sig \in {"expired", "invalid"}) =>
        /\ r.pc = "done" /\ r.status = 400 /\ r.code = "TOKEN ALREADY INVALID"
        /\ r.body = "none" /\ ~Has(r.trace, "set")

\* The step part of C16: a step of /sign-out leaves the ledger and the
\* session cache as they are, and the blacklist too unless it is the
\* blacklist write of a token that verified.
C16_Frame ==
    \A i \in Slots :
      (req'[i] # req[i] /\ req'[i].op = "signout") =>
        /\ TokenStore' = TokenStore
        /\ tokenCache' = tokenCache
        /\ (req'[i].sig # "valid" \/ req'[i].body # "SUCCESS") =>
              tokenBlacklistCache' = tokenBlacklistCache
        /\ \A t \in AccessTokens \ {req'[i].tok} :
              tokenBlacklistCache'[t] = tokenBlacklistCache[t]

\* C16: /sign-out changes nothing but the blacklist: ledger and session
\* cache are the same before and after each of its steps, and for a token
\* whose signature is invalid or expired it answers 400 TOKEN ALREADY
\* INVALID and leaves the blacklist unchanged as well.
C16_SignOutFrame == []C16_Answers /\ [][C16_Frame]_vars

\* C16 witness: a token was signed out and its session-cache entry is
\* still live, and a /sign-out of a token that does not verify has been
\* answered TOKEN ALREADY INVALID.
C16_Witness ==
    /\ \E t \in signedOut : Live(tokenCache[t]) /\ Live(tokenBlacklistCache[t])
    /\ \E i \in Slots : LET r == req[i] IN
         /\ r.op = "signout" /\ r.sig \in {"expired", "invalid"}
         /\ r.code = "TOKEN ALREADY INVALID" /\ ~Live(tokenBlacklistCache[r.tok])

\* C17: a /refresh that has answered 200 has put the entry pairing the
\* access token it returns with the refresh token of its cookie in the
\* ledger, and the claims of that access token in the session cache with
\* TTL exp - iat; a /refresh that presents a pair issued by /refresh, with
\* no store fault, finds the pairing and answers 200 in its turn.
C17_RefreshChains ==
    \A i \in Slots : LET r == req[i] IN
      r.op = "refresh" =>
        /\ r.status = 200 =>
              /\ r.body = "token" /\ r.claims = tokUser[r.new]
              /\ r.cookieOp = "set" /\ r.cookieVal = r.new
              /\ [user_id |-> tokUser[r.new], access_token |-> r.new,
                  refresh_token |-> r.cookieVal] \in TokenStore
              /\ tokenCache[r.new].type = "USER"
              /\ tokenCache[r.new].user = tokUser[r.new]
              /\ tokenCache[r.new].iat = tokIat[r.new]
              /\ tokenCache[r.new].exp = TokExp(r.new)
              /\ tokenCache[r.new].until = now + (TokExp(r.new) - tokIat[r.new])
        /\ (r.tok \in (known \cap Pairs) \ {1} /\ r.cookie = r.tok
              /\ ~r.fault /\ ~r.blLive) =>
              /\ r.paired # "no"
              /\ r.pc = "done" => (r.status = 200 /\ r.new \notin {0, r.tok})

\* C17 witness: a /refresh that presented the pair of an earlier /refresh
\* has succeeded, and time had passed between the signing of its new pair
\* and the cache write.
C17_Witness ==
    \E i \in Slots : LET r == req[i] IN
      /\ r.op = "refresh" /\ r.tok \in (known \cap Pairs) \ {1} /\ r.cookie = r.tok
      /\ r.status = 200 /\ tokIat[r.new] < now

\* C18: on the fallback path of authorize with a valid signature the
\* refresh-cookie check comes after the verification and before the
\* session-cache write; when the check returns an error the request ends
\* with it, without claims and without a cache write; claims are returned
\* only after the cache write has reported OK.
C18_LinkageBeforeCacheWrite ==
    \A i \in Slots : LET r == req[i] IN
      (IsAuthorize(r) /\ r.sig = "valid") =>
        /\ Has(r.trace, "set") =>
              (Before(r.trace, "verify", "link") /\ Before(r.trace, "link", "set"))
        /\ r.code \in {"REFRESH TOKEN INVALID", "PROBLEM RESETTING REFRESH TOKEN"} =>
              (r.pc = "done" /\ r.body = "none" /\ ~Has(r.trace, "set"))
        /\ r.body = "claims" => (Has(r.trace, "set") /\ ~r.fault)

\* C19: the cached claims of a SYS token are served to one request at
\* most: no request is answered with the claims of an entry that another
\* request has been served and has deleted; reading the entry and deleting
\* it is one consuming step.
C19_OneConsumer ==
    \A i \in Slots : LET r == req[i] IN
      (r.op = "authorize" /\ HasSysPrefix(r.tok) /\ r.body = "claims") => ~r.again

\* C20: the promise of initByEmail and initByID settles once the lookup has
\* settled: a lookup that failed is handed to the caller as a lookup-failed
\* outcome, and exists() is true only of a User whose promise has resolved
\* after a lookup that returned a user.
C20_InitSettles ==
    \A i \in Slots : LET r == req[i] IN
      r.op \in {"initByEmail", "initByID"} =>
        /\ Has(r.trace, "lookup") => r.pc = "done"
        /\ r.fault => r.code = "LOOKUP FAILED"
        /\ UserExists(r) => (r.pc = "done" /\ ~r.fault /\ r.got = fetchUser(r.key))

====
